---- MODULE Spec2Model ----
(***************************************************************************)
(* Model of services/SpacedRepetitionEngine.ts: the SM-2 style review      *)
(* scheduler (SpacedRepetitionEngine.calculateNextReview and its helpers), *)
(* its read-only folds (getDueExercises, getStatistics) and the stateless  *)
(* DifficultyAdapter.                                                      *)
(*                                                                         *)
(* Units.  Ease factors are modelled in hundredths (2.5 is 250, 1.3 is     *)
(* 130, the SM-2 coefficients 0.1, 0.08 and 0.02 are 10, 8 and 2), so the  *)
(* arithmetic of calculateNewEaseFactor is exact integer arithmetic.  The   *)
(* code computes in IEEE doubles; on every schedule and sample within the  *)
(* bounds below the doubles round to the same interval and repetition      *)
(* count, and to the same ease factor up to the last bits of the double.   *)
(* Instants are milliseconds, counted from the first instant of a          *)
(* behaviour instead of from the Unix epoch.                               *)
(***************************************************************************)
EXTENDS Integers, Sequences, FiniteSets, TLC

VARIABLES
    schedule,   \* the stored SpacedRepetitionSchedule of one (user, exercise), or NULL
    lastCall,   \* the arguments and locals of the last calculateNextReview call, or NoCall
    clock,      \* what Date.now() returns
    request,    \* what a caller of the read-only operations holds: its arguments, or Idle
    response,   \* the arguments and the result of the last read-only call, or Idle
    events      \* two answer events in flight in the persistence layer, or Idle

vars == <<schedule, lastCall, clock, request, response, events>>
schedulerVars == <<schedule, lastCall, clock>>

----------------------------------------------------------------------------
(* Bounds of the model *)

MaxInterval == 18          \* reviews that would schedule further ahead are not explored
MaxEase == 270             \* nor reviews that would raise the ease factor above 2.70
MaxRepetitions == 4        \* nor reviews that would raise repetitionCount above this
MaxClockTicks == 2         \* the clock advances at most this many half days
MaxConfidenceExcess == 3   \* out-of-domain confidences: this far below 0 and above 100
MaxTimeTaken == 9          \* answer times drawn by InitConfidence: 0 .. 9 seconds
MaxAverageTime == 4        \* average times drawn by InitConfidence: up to 4 seconds ..
MaxAverageDeficit == 1     \* .. and down to this far below 0
MaxDue == 7                \* statistics drawn by InitRecommendations: due 0 .. 7,
MaxLearning == 12          \* learning 0 .. 12,
MaxNew == 2                \* new 0 .. 2
MaxSchedules == 3          \* collections drawn by InitCollection: 0 .. 3 schedules
MaxRunLength == 27         \* reviews in a run of SpecEase
MaxProduced == 2           \* exercises of one user in SpecProduced ..
MaxReviewsEach == 3        \* .. and reviews of each
MinEaseInput == 120        \* stored ease factors drawn by InitInputs: 1.20 ..
MaxEaseInput == 270        \* .. 2.70
MaxIntervalInput == 10     \* stored intervals drawn by InitInputs: 0 .. 10 days
MaxRepetitionsInput == 4   \* stored repetition counts drawn by InitInputs: 0 .. 4

----------------------------------------------------------------------------
(* Values *)

NULL == [null |-> TRUE]
NoCall == [called |-> FALSE]
Idle == [op |-> "none"]
NoQuality == 0 - 1         \* the first-review branch returns before quality is computed

INITIAL_EASE_FACTOR == 250
MAXIMUM_EASE_FACTOR == 500 \* SPACED_REPETITION_CONFIG; the engine does not read it
MINIMUM_EASE_FACTOR == 130

Min(a, b) == IF a <= b THEN a ELSE b
Max(a, b) == IF a >= b THEN a ELSE b

\* Mutant: the fraction dropped instead of rounded.
MathTrunc(num, den) == num \div den

\* Math.round of the non-negative rational num/den: the nearest integer, halves up.
MathRound(num, den) == (2 * num + den) \div (2 * den)

\* PerformanceQuality values: the confidences around every threshold of
\* calculateQuality, and the ones of the documented examples (10, 80, 95).
\* timeSpent is carried but never read by the engine.
Confidences == {0, 10, 29, 30, 49, 50, 74, 75, 80, 89, 90, 95, 100}
TimeSpents == {5}
Samples == [correct : BOOLEAN, confidence : Confidences, timeSpent : TimeSpents]

\* Every PerformanceQuality of the documented domain, confidence 0..100.
AllSamples == [correct : BOOLEAN, confidence : 0..100, timeSpent : TimeSpents]

----------------------------------------------------------------------------
(* SpacedRepetitionEngine *)

\* Mutant: the thresholds of a correct answer exclusive instead of inclusive.
calculateQualityExclusive(performance) ==
    IF ~performance.correct
    THEN Max(0, IF performance.confidence < 30 THEN 0 ELSE 2)
    ELSE IF performance.confidence > 90 THEN 5
    ELSE IF performance.confidence > 75 THEN 4
    ELSE IF performance.confidence > 50 THEN 3
    ELSE 2

\* Mutant: a confidence above 100 is not taken for a confident answer.
calculateQualityUpTo100(performance) ==
    IF ~performance.correct
    THEN Max(0, IF performance.confidence < 30 THEN 0 ELSE 2)
    ELSE IF performance.confidence >= 90 /\ performance.confidence <= 100 THEN 5
    ELSE IF performance.confidence >= 75 /\ performance.confidence <= 100 THEN 4
    ELSE IF performance.confidence >= 50 /\ performance.confidence <= 100 THEN 3
    ELSE 2

calculateQuality(performance) ==
    IF ~performance.correct
    THEN Max(0, IF performance.confidence < 30 THEN 0 ELSE 2)
    ELSE IF performance.confidence >= 90 THEN 5
    ELSE IF performance.confidence >= 75 THEN 4
    ELSE IF performance.confidence >= 50 THEN 3
    ELSE 2

\* Mutant: the new ease factor without the floor at MINIMUM_EASE_FACTOR.
calculateNewEaseFactorNoFloor(currentEF, quality) ==
    currentEF + 10 - (5 - quality) * (8 + (5 - quality) * 2)

\* Mutant: the quadratic term of the SM-2 penalty left out.
calculateNewEaseFactorLinear(currentEF, quality) ==
    LET newEF == currentEF + 10 - (5 - quality) * 8
    IN  Max(MINIMUM_EASE_FACTOR, newEF)

\* Mutant: the constant 0.1 of the SM-2 expression left out.
calculateNewEaseFactorNoBonus(currentEF, quality) ==
    LET newEF == currentEF - (5 - quality) * (8 + (5 - quality) * 2)
    IN  Max(MINIMUM_EASE_FACTOR, newEF)

\* EF' = EF + 0.1 - (5 - q) * (0.08 + (5 - q) * 0.02), in hundredths
calculateNewEaseFactor(currentEF, quality) ==
    LET newEF == currentEF + 10 - (5 - quality) * (8 + (5 - quality) * 2)
    IN  Max(MINIMUM_EASE_FACTOR, newEF)

\* Mutant: days converted to seconds.
daysToSeconds(days) == days * 24 * 60 * 60

daysToMs(days) == days * 24 * 60 * 60 * 1000

\* Mutant: a failed review halves the interval instead of resetting it.
nextIntervalPartialCredit(currentSchedule, quality, newEaseFactor) ==
    IF quality < 3 THEN Max(1, currentSchedule.interval \div 2)
    ELSE IF currentSchedule.repetitionCount = 0 THEN 1
    ELSE IF currentSchedule.repetitionCount = 1 THEN 3
    ELSE MathRound(currentSchedule.interval * newEaseFactor, 100)

\* Mutant: the interval grown by the previous ease factor, not the updated one.
nextIntervalPreviousEase(currentSchedule, quality, newEaseFactor) ==
    IF quality < 3 THEN 1
    ELSE IF currentSchedule.repetitionCount = 0 THEN 1
    ELSE IF currentSchedule.repetitionCount = 1 THEN 3
    ELSE MathRound(currentSchedule.interval * currentSchedule.easeFactor, 100)

\* Mutant: the grown interval is rounded down.
nextIntervalFloor(currentSchedule, quality, newEaseFactor) ==
    IF quality < 3 THEN 1
    ELSE IF currentSchedule.repetitionCount = 0 THEN 1
    ELSE IF currentSchedule.repetitionCount = 1 THEN 3
    ELSE (currentSchedule.interval * newEaseFactor) \div 100

\* Mutant: a failed review is repeated the same day.
nextIntervalSameDay(currentSchedule, quality, newEaseFactor) ==
    IF quality < 3 THEN 0
    ELSE IF currentSchedule.repetitionCount = 0 THEN 1
    ELSE IF currentSchedule.repetitionCount = 1 THEN 3
    ELSE MathRound(currentSchedule.interval * newEaseFactor, 100)

\* The interval chosen by the if/else chain of calculateNextReview.
nextInterval(currentSchedule, quality, newEaseFactor) ==
    IF quality < 3 THEN 1
    ELSE IF currentSchedule.repetitionCount = 0 THEN 1
    ELSE IF currentSchedule.repetitionCount = 1 THEN 3
    ELSE MathRound(currentSchedule.interval * newEaseFactor, 100)

\* Mutant: a failed review resets the count to 0.
nextRepetitionCountResetToZero(currentSchedule, quality) ==
    IF quality >= 3 THEN currentSchedule.repetitionCount + 1 ELSE 0

\* The repetitionCount calculateNextReview returns for an existing schedule.
nextRepetitionCount(currentSchedule, quality) ==
    IF quality >= 3 THEN currentSchedule.repetitionCount + 1 ELSE 1

\* Mutant: the days elapsed since the last review are added to the interval.
calculateNextReviewElapsed(currentSchedule, performance, now) ==
    IF currentSchedule = NULL
    THEN [exerciseId |-> "", userId |-> "",
          nextReviewDate |-> now + daysToMs(1),
          interval |-> 1,
          easeFactor |-> INITIAL_EASE_FACTOR,
          repetitionCount |-> 1,
          lastReviewDate |-> now]
    ELSE LET quality == calculateQuality(performance)
             newEaseFactor == calculateNewEaseFactor(currentSchedule.easeFactor, quality)
             elapsed == (now - currentSchedule.lastReviewDate) \div daysToMs(1)
             interval == nextInterval(currentSchedule, quality, newEaseFactor)
                            + Max(0, elapsed)
         IN  [exerciseId |-> currentSchedule.exerciseId,
              userId |-> currentSchedule.userId,
              nextReviewDate |-> now + daysToMs(interval),
              interval |-> interval,
              easeFactor |-> newEaseFactor,
              repetitionCount |-> nextRepetitionCount(currentSchedule, quality),
              lastReviewDate |-> now]

\* Mutant: the first review leaves the exercise with no repetition counted.
calculateNextReviewFirstUncounted(currentSchedule, performance, now) ==
    IF currentSchedule = NULL
    THEN [exerciseId |-> "", userId |-> "",
          nextReviewDate |-> now + daysToMs(1),
          interval |-> 1,
          easeFactor |-> INITIAL_EASE_FACTOR,
          repetitionCount |-> 0,
          lastReviewDate |-> now]
    ELSE LET quality == calculateQuality(performance)
             newEaseFactor == calculateNewEaseFactor(currentSchedule.easeFactor, quality)
             interval == nextInterval(currentSchedule, quality, newEaseFactor)
         IN  [exerciseId |-> currentSchedule.exerciseId,
              userId |-> currentSchedule.userId,
              nextReviewDate |-> now + daysToMs(interval),
              interval |-> interval,
              easeFactor |-> newEaseFactor,
              repetitionCount |-> nextRepetitionCount(currentSchedule, quality),
              lastReviewDate |-> now]

calculateNextReview(currentSchedule, performance, now) ==
    IF currentSchedule = NULL
    THEN [exerciseId |-> "", userId |-> "",
          nextReviewDate |-> now + daysToMs(1),
          interval |-> 1,
          easeFactor |-> INITIAL_EASE_FACTOR,
          repetitionCount |-> 1,
          lastReviewDate |-> now]
    ELSE LET quality == calculateQuality(performance)
             newEaseFactor == calculateNewEaseFactor(currentSchedule.easeFactor, quality)
             interval == nextInterval(currentSchedule, quality, newEaseFactor)
         IN  [exerciseId |-> currentSchedule.exerciseId,
              userId |-> currentSchedule.userId,
              nextReviewDate |-> now + daysToMs(interval),
              interval |-> interval,
              easeFactor |-> newEaseFactor,
              repetitionCount |-> nextRepetitionCount(currentSchedule, quality),
              lastReviewDate |-> now]

----------------------------------------------------------------------------
(* Operations *)

\* Whether the model explores the review: what it returns stays within the
\* bounds (decided before the instants are computed, which must fit TLC's integers).
WithinBounds(currentSchedule, performance) ==
    IF currentSchedule = NULL THEN TRUE
    ELSE LET quality == calculateQuality(performance)
             newEaseFactor == calculateNewEaseFactor(currentSchedule.easeFactor, quality)
         IN  /\ nextInterval(currentSchedule, quality, newEaseFactor) <= MaxInterval
             /\ newEaseFactor <= MaxEase
             /\ quality >= 3 => currentSchedule.repetitionCount < MaxRepetitions

\* One answer event: the caller reads the stored schedule, calls
\* calculateNextReview with the observed performance and stores the result.
ReviewCall(performance) ==
    /\ WithinBounds(schedule, performance)
    /\ schedule' = calculateNextReview(schedule, performance, clock)
    /\ lastCall' = [called |-> TRUE,
                    currentSchedule |-> schedule,
                    performance |-> performance,
                    now |-> clock,
                    quality |-> IF schedule = NULL THEN NoQuality
                                ELSE calculateQuality(performance)]
    /\ UNCHANGED clock

Review(performance) ==
    /\ ReviewCall(performance)
    /\ UNCHANGED <<request, response, events>>

\* Time passes: Date.now() grows by half a day.
TickMs == daysToMs(1) \div 2

Tick ==
    /\ clock < MaxClockTicks * TickMs
    /\ clock' = clock + TickMs
    /\ UNCHANGED <<schedule, lastCall, request, response, events>>

----------------------------------------------------------------------------
(* Spec: one (user, exercise) pair reviewed again and again, from no schedule *)

Init ==
    /\ schedule = NULL
    /\ lastCall = NoCall
    /\ clock = 0
    /\ request = Idle
    /\ response = Idle
    /\ events = Idle

Next ==
    \/ \E performance \in Samples : Review(performance)
    \/ Tick

Spec == Init /\ [][Next]_vars

----------------------------------------------------------------------------
(* SpecInputs: one review of a schedule as it may be found stored (any       *)
(* interval, ease factor and repetition count of the input bounds), and the  *)
(* runs of reviews that start from no schedule                               *)

StoredSchedules ==
    { [exerciseId |-> "ex-1", userId |-> "user-1",
       nextReviewDate |-> daysToMs(i),
       interval |-> i,
       easeFactor |-> e,
       repetitionCount |-> r,
       lastReviewDate |-> 0] :
      i \in 0..MaxIntervalInput, e \in MinEaseInput..MaxEaseInput,
      r \in 0..MaxRepetitionsInput }

InitInputs ==
    /\ schedule \in StoredSchedules \cup {NULL}
    /\ lastCall = NoCall
    /\ clock = TickMs
    /\ request = Idle
    /\ response = Idle
    /\ events = Idle

\* The first-review branch returns empty ids: a schedule carrying them comes
\* from a run that started with no schedule, and is reviewed again.
NextInputs ==
    \E performance \in Samples :
        /\ IF lastCall = NoCall THEN TRUE ELSE schedule.exerciseId = ""
        /\ Review(performance)

SpecInputs == InitInputs /\ [][NextInputs]_vars

----------------------------------------------------------------------------
(* SpecQuality: one review, with every confidence of 0..100, of a stored      *)
(* schedule of each repetition count                                            *)

InitQuality ==
    /\ schedule \in { s \in StoredSchedules :
                        s.easeFactor = INITIAL_EASE_FACTOR /\ s.interval = 1 }
    /\ lastCall = NoCall
    /\ clock = 0
    /\ request = Idle
    /\ response = Idle
    /\ events = Idle

NextQuality ==
    \E performance \in AllSamples : lastCall = NoCall /\ Review(performance)

SpecQuality == InitQuality /\ [][NextQuality]_vars

----------------------------------------------------------------------------
(* SpecClamp: one review with a confidence outside 0..100, of no schedule    *)
(* and of every stored schedule                                              *)

OutOfDomainSamples ==
    [correct : BOOLEAN,
     confidence : ((0 - MaxConfidenceExcess)..(0 - 1))
                     \cup (101..(100 + MaxConfidenceExcess)),
     timeSpent : TimeSpents]

InitClamp ==
    /\ schedule \in StoredSchedules \cup {NULL}
    /\ lastCall = NoCall
    /\ clock = 0
    /\ request = Idle
    /\ response = Idle
    /\ events = Idle

NextClamp ==
    \E performance \in OutOfDomainSamples : lastCall = NoCall /\ Review(performance)

SpecClamp == InitClamp /\ [][NextClamp]_vars

----------------------------------------------------------------------------
(* DifficultyAdapter.suggestNextDifficulty                                    *)
(*                                                                            *)
(* correctRate is modelled in hundredths (0.85 is 85) and confidenceScore is  *)
(* 0..100, so performanceScore = correctRate * (confidenceScore / 100) is     *)
(* their product in ten-thousandths: 0.8 is 8000 and 0.4 is 4000.             *)

Tiers == {"easy", "medium", "hard", "expert"}
Percents == 0..100

difficulties == <<"easy", "medium", "hard", "expert">>

\* Array.prototype.indexOf: the 0-based position of the first match, or -1.
indexOf(array, element) ==
    IF \E i \in 1..Len(array) : array[i] = element
    THEN (CHOOSE i \in 1..Len(array) :
            /\ array[i] = element
            /\ \A j \in 1..(i - 1) : array[j] # element) - 1
    ELSE 0 - 1

\* array[index] with a 0-based index; out of range reads undefined.
at(array, index) ==
    IF index >= 0 /\ index < Len(array) THEN array[index + 1] ELSE "undefined"

\* Mutant: the thresholds are inclusive.
suggestNextDifficultyInclusive(currentDifficulty, correctRate, confidenceScore) ==
    LET performanceScore == correctRate * confidenceScore
        currentIndex == indexOf(difficulties, currentDifficulty)
    IN  IF performanceScore >= 8000
        THEN at(difficulties, Min(currentIndex + 1, Len(difficulties) - 1))
        ELSE IF performanceScore <= 4000
        THEN at(difficulties, Max(currentIndex - 1, 0))
        ELSE currentDifficulty

\* Mutant: the index is not clamped to the array.
suggestNextDifficultyUnclamped(currentDifficulty, correctRate, confidenceScore) ==
    LET performanceScore == correctRate * confidenceScore
        currentIndex == indexOf(difficulties, currentDifficulty)
    IN  IF performanceScore > 8000
        THEN at(difficulties, currentIndex + 1)
        ELSE IF performanceScore < 4000
        THEN at(difficulties, currentIndex - 1)
        ELSE currentDifficulty

\* Mutant: the correct rate alone decides, as the guides describe it.
suggestNextDifficultyRateOnly(currentDifficulty, correctRate, confidenceScore) ==
    LET performanceScore == correctRate * 100
        currentIndex == indexOf(difficulties, currentDifficulty)
    IN  IF performanceScore > 8000
        THEN at(difficulties, Min(currentIndex + 1, Len(difficulties) - 1))
        ELSE IF performanceScore < 4000
        THEN at(difficulties, Max(currentIndex - 1, 0))
        ELSE currentDifficulty

suggestNextDifficulty(currentDifficulty, correctRate, confidenceScore) ==
    LET performanceScore == correctRate * confidenceScore
        currentIndex == indexOf(difficulties, currentDifficulty)
    IN  IF performanceScore > 8000
        THEN at(difficulties, Min(currentIndex + 1, Len(difficulties) - 1))
        ELSE IF performanceScore < 4000
        THEN at(difficulties, Max(currentIndex - 1, 0))
        ELSE currentDifficulty

\* One call; the caller takes the suggestion as the learner's next tier and
\* calls again with it when the next figures come in.
SuggestNextDifficulty ==
    /\ request.op = "suggestNextDifficulty"
    /\ LET result == suggestNextDifficulty(request.currentDifficulty,
                                           request.correctRate,
                                           request.confidenceScore)
       IN  /\ response' = [op |-> "suggestNextDifficulty",
                           currentDifficulty |-> request.currentDifficulty,
                           correctRate |-> request.correctRate,
                           confidenceScore |-> request.confidenceScore,
                           result |-> result]
           /\ request' = [request EXCEPT !.currentDifficulty = result]
    /\ UNCHANGED <<schedulerVars, events>>

InitDifficulty ==
    /\ schedule = NULL
    /\ lastCall = NoCall
    /\ clock = 0
    /\ request \in [op : {"suggestNextDifficulty"},
                     currentDifficulty : Tiers,
                     correctRate : Percents,
                     confidenceScore : Percents]
    /\ response = Idle
    /\ events = Idle

NextDifficulty == SuggestNextDifficulty

SpecDifficulty == InitDifficulty /\ [][NextDifficulty]_vars

----------------------------------------------------------------------------
(* DifficultyAdapter.calculateConfidenceScore                                 *)
(*                                                                            *)
(* Times are whole seconds and previousAccuracy is in hundredths.  The speed  *)
(* ratio is an IEEE quotient: x / 0 is Infinity, -Infinity or (0 / 0) NaN,    *)
(* and every comparison with NaN is false.                                    *)

TimesTaken == 0..MaxTimeTaken
AverageTimes == (0 - MaxAverageDeficit)..MaxAverageTime

\* speedRatio < bound, for bound = boundTwice / 2 (0.5, 1 and 2 are 1, 2 and 4
\* halves).
speedRatioBelow(timeTaken, averageTimePerExercise, boundTwice) ==
    IF averageTimePerExercise > 0
    THEN 2 * timeTaken < boundTwice * averageTimePerExercise
    ELSE IF averageTimePerExercise < 0
    THEN 2 * timeTaken > boundTwice * averageTimePerExercise
    ELSE timeTaken < 0

speedPoints(timeTaken, averageTimePerExercise) ==
    IF speedRatioBelow(timeTaken, averageTimePerExercise, 1) THEN 30
    ELSE IF speedRatioBelow(timeTaken, averageTimePerExercise, 2) THEN 20
    ELSE IF speedRatioBelow(timeTaken, averageTimePerExercise, 4) THEN 10
    ELSE 0

\* Mutant: previous accuracy weighs 40 points.
calculateConfidenceScoreAccuracy40(isCorrect, timeTaken, averageTimePerExercise, previousAccuracy) ==
    MathRound(((IF isCorrect THEN 40 ELSE 10)
                  + speedPoints(timeTaken, averageTimePerExercise)) * 100
              + previousAccuracy * 40, 100)

calculateConfidenceScore(isCorrect, timeTaken, averageTimePerExercise, previousAccuracy) ==
    MathRound(((IF isCorrect THEN 40 ELSE 10)
                  + speedPoints(timeTaken, averageTimePerExercise)) * 100
              + previousAccuracy * 30, 100)

CalculateConfidenceScore ==
    /\ request.op = "calculateConfidenceScore"
    /\ response' = [op |-> "calculateConfidenceScore",
                    isCorrect |-> request.isCorrect,
                    timeTaken |-> request.timeTaken,
                    averageTimePerExercise |-> request.averageTimePerExercise,
                    previousAccuracy |-> request.previousAccuracy,
                    result |-> calculateConfidenceScore(
                                   request.isCorrect, request.timeTaken,
                                   request.averageTimePerExercise,
                                   request.previousAccuracy)]
    /\ request' = Idle
    /\ UNCHANGED <<schedulerVars, events>>

InitConfidence ==
    /\ schedule = NULL
    /\ lastCall = NoCall
    /\ clock = 0
    /\ request \in [op : {"calculateConfidenceScore"},
                     isCorrect : BOOLEAN,
                     timeTaken : TimesTaken,
                     averageTimePerExercise : AverageTimes,
                     previousAccuracy : Percents]
    /\ response = Idle
    /\ events = Idle

NextConfidence == CalculateConfidenceScore

SpecConfidence == InitConfidence /\ [][NextConfidence]_vars

----------------------------------------------------------------------------
(* DifficultyAdapter.getRecommendations                                       *)
(*                                                                            *)
(* A mean ease factor is the pair of the sum (in hundredths) and the count    *)
(* it is divided by; a count of 0 is the NaN of 0 / 0, and every comparison   *)
(* with NaN is false.  The five Hebrew messages are named by their meaning.   *)

Mean(sum, count) == [sum |-> sum, count |-> count]
NaN == Mean(0, 0)

\* mean < bound, for a bound in hundredths.
MeanBelow(mean, bound) == mean.count > 0 /\ mean.sum < bound * mean.count

MeanEaseFactors == { Mean(e, 1) : e \in {130, 149, 150, 151, 250} } \cup {NaN}

StatisticsInputs ==
    [due : 0..MaxDue, learning : 0..MaxLearning, new : 0..MaxNew,
     averageEaseFactor : MeanEaseFactors]

\* Mutant: the encouragement is always appended.
getRecommendationsAlwaysPraise(stats) ==
    LET due == IF stats.due > 5 THEN <<"manyDue">> ELSE <<>>
        learning == IF stats.learning > 10 THEN Append(due, "heavyLearning") ELSE due
        new == IF stats.new > 0 THEN Append(learning, "newExercises") ELSE learning
        hard == IF MeanBelow(stats.averageEaseFactor, 150)
                THEN Append(new, "contentTooHard") ELSE new
    IN  Append(hard, "doingGreat")

getRecommendations(stats) ==
    LET due == IF stats.due > 5 THEN <<"manyDue">> ELSE <<>>
        learning == IF stats.learning > 10 THEN Append(due, "heavyLearning") ELSE due
        new == IF stats.new > 0 THEN Append(learning, "newExercises") ELSE learning
        hard == IF MeanBelow(stats.averageEaseFactor, 150)
                THEN Append(new, "contentTooHard") ELSE new
    IN  IF Len(hard) = 0 THEN <<"doingGreat">> ELSE hard

GetRecommendations ==
    /\ request.op = "getRecommendations"
    /\ response' = [op |-> "getRecommendations",
                    stats |-> request.stats,
                    result |-> getRecommendations(request.stats)]
    /\ request' = Idle
    /\ UNCHANGED <<schedulerVars, events>>

InitRecommendations ==
    /\ schedule = NULL
    /\ lastCall = NoCall
    /\ clock = 0
    /\ request \in [op : {"getRecommendations"}, stats : StatisticsInputs]
    /\ response = Idle
    /\ events = Idle

NextRecommendations == GetRecommendations

SpecRecommendations == InitRecommendations /\ [][NextRecommendations]_vars

----------------------------------------------------------------------------
(* The read-only folds over one user's collection of schedules:              *)
(* getDueExercises and getStatistics                                          *)

\* Mutant: a schedule whose review falls on this very instant is not due.
getDueExercisesStrict(schedules, now) ==
    SelectSeq(schedules, LAMBDA s : s.nextReviewDate < now)

getDueExercises(schedules, now) ==
    SelectSeq(schedules, LAMBDA s : s.nextReviewDate <= now)

\* schedules.reduce((sum, s) => sum + s.easeFactor, 0)
RECURSIVE reduceEaseFactor(_)
reduceEaseFactor(schedules) ==
    IF schedules = <<>> THEN 0
    ELSE reduceEaseFactor(SubSeq(schedules, 1, Len(schedules) - 1))
            + schedules[Len(schedules)].easeFactor

\* Mutant: every schedule of 1 or 2 repetitions counts as learning, due or not.
getStatisticsLearningAnyDate(schedules, now) ==
    [total |-> Len(schedules),
     due |-> Len(SelectSeq(schedules, LAMBDA s : s.nextReviewDate <= now)),
     new |-> Len(SelectSeq(schedules, LAMBDA s : s.repetitionCount = 0)),
     learning |-> Len(SelectSeq(schedules, LAMBDA s :
                        s.repetitionCount > 0 /\ s.repetitionCount < 3)),
     review |-> Len(SelectSeq(schedules, LAMBDA s :
                        s.repetitionCount >= 3 /\ s.nextReviewDate > now)),
     averageEaseFactor |-> Mean(reduceEaseFactor(schedules), Len(schedules))]

getStatistics(schedules, now) ==
    [total |-> Len(schedules),
     due |-> Len(SelectSeq(schedules, LAMBDA s : s.nextReviewDate <= now)),
     new |-> Len(SelectSeq(schedules, LAMBDA s : s.repetitionCount = 0)),
     learning |-> Len(SelectSeq(schedules, LAMBDA s :
                        /\ s.repetitionCount > 0
                        /\ s.repetitionCount < 3
                        /\ s.nextReviewDate > now)),
     review |-> Len(SelectSeq(schedules, LAMBDA s :
                        s.repetitionCount >= 3 /\ s.nextReviewDate > now)),
     averageEaseFactor |-> Mean(reduceEaseFactor(schedules), Len(schedules))]

\* Both folds read the clock and the collection and write nothing.
GetDueExercises ==
    /\ request.op = "schedules"
    /\ response' = [op |-> "getDueExercises",
                    schedules |-> request.schedules,
                    now |-> clock,
                    result |-> getDueExercises(request.schedules, clock)]
    /\ UNCHANGED <<request, schedulerVars, events>>

GetStatistics ==
    /\ request.op = "schedules"
    /\ response' = [op |-> "getStatistics",
                    schedules |-> request.schedules,
                    now |-> clock,
                    result |-> getStatistics(request.schedules, clock)]
    /\ UNCHANGED <<request, schedulerVars, events>>

\* The schedules a collection is made of: reviewed at instant 0 with an
\* interval of 0 or 1 day, new, learning or mature, easy or hard.
ScheduleKinds ==
    { s \in StoredSchedules :
        /\ s.interval \in {0, 1}
        /\ s.repetitionCount \in {0, 2, 3}
        /\ s.easeFactor \in {MINIMUM_EASE_FACTOR, INITIAL_EASE_FACTOR} }

\* One user's schedules, one per exercise.
Collections ==
    UNION { { [k \in 1..n |-> [kinds[k] EXCEPT !.exerciseId = ToString(k)]] :
                kinds \in [1..n -> ScheduleKinds] } :
            n \in 0..MaxSchedules }

InitCollection ==
    /\ schedule = NULL
    /\ lastCall = NoCall
    /\ clock = 0
    /\ request \in [op : {"schedules"}, schedules : Collections]
    /\ response = Idle
    /\ events = Idle

NextCollection ==
    \/ GetDueExercises
    \/ GetStatistics
    \/ Tick

SpecCollection == InitCollection /\ [][NextCollection]_vars

----------------------------------------------------------------------------
(* SpecRace: the persistence layer around calculateNextReview.  Two answer    *)
(* events for the same (owner, item) each read the stored schedule, call     *)
(* calculateNextReview on what they read and write the result back; the      *)
(* layer either serializes them with a per-item lock or does not.  The       *)
(* repository has no such layer: the steps of the events follow section 5 of *)
(* the specification, the review itself is the engine's.                     *)

EventIds == {"a", "b"}

\* The schedules the two events may find stored.
RaceSchedules ==
    { s \in StoredSchedules :
        /\ s.interval \in {1, 2}
        /\ s.repetitionCount \in {1, 2}
        /\ s.easeFactor \in {MINIMUM_EASE_FACTOR, 170, INITIAL_EASE_FACTOR} }

\* Mutant: the lock is not taken.
mayReadUnlocked(e) == TRUE

\* With per-item serialization an event reads only while no other event is
\* between its read and its write.
mayRead(e) ==
    events.serialized => \A other \in EventIds : events.pc[other] # "holding"

ReadState(e) ==
    /\ events.op = "answerEvents"
    /\ events.pc[e] = "waiting"
    /\ mayRead(e)
    /\ events' = [events EXCEPT !.pc[e] = "holding",
                                !.read[e] = schedule,
                                !.log = Append(@, <<"read", e>>)]
    /\ UNCHANGED <<schedulerVars, request, response>>

WriteBack(e) ==
    /\ events.op = "answerEvents"
    /\ events.pc[e] = "holding"
    /\ WithinBounds(events.read[e], events.performance[e])
    /\ schedule' = calculateNextReview(events.read[e], events.performance[e], clock)
    /\ lastCall' = [called |-> TRUE,
                    currentSchedule |-> events.read[e],
                    performance |-> events.performance[e],
                    now |-> clock,
                    quality |-> IF events.read[e] = NULL THEN NoQuality
                                ELSE calculateQuality(events.performance[e])]
    /\ events' = [events EXCEPT !.pc[e] = "done",
                                !.log = Append(@, <<"write", e>>)]
    /\ UNCHANGED <<clock, request, response>>

InitRace ==
    /\ schedule \in RaceSchedules \cup {NULL}
    /\ lastCall = NoCall
    /\ clock = TickMs
    /\ request = Idle
    /\ response = Idle
    /\ events \in [op : {"answerEvents"},
                    serialized : BOOLEAN,
                    initial : {schedule},
                    performance : [EventIds -> Samples],
                    pc : {[e \in EventIds |-> "waiting"]},
                    read : {[e \in EventIds |-> NULL]},
                    log : {<<>>}]

NextRace ==
    \E e \in EventIds :
        \/ ReadState(e)
        \/ WriteBack(e)

SpecRace == InitRace /\ [][NextRace]_vars

----------------------------------------------------------------------------
(* SpecEase: the easeFactor field along a long run of reviews from no        *)
(* schedule.  calculateNextReview computes the field from its previous value *)
(* and the quality alone, so the run is followed without the intervals and   *)
(* dates, which outgrow the integers of the model after a few passes.        *)

ReviewEaseFactor(performance) ==
    /\ request.op = "easeFactor"
    /\ request.reviews < MaxRunLength
    /\ LET quality == IF request.reviews = 0 THEN NoQuality
                      ELSE calculateQuality(performance)
           newEF == IF request.reviews = 0 THEN INITIAL_EASE_FACTOR
                    ELSE calculateNewEaseFactor(request.easeFactor, quality)
       IN  /\ request' = [op |-> "easeFactor",
                          reviews |-> request.reviews + 1,
                          easeFactor |-> newEF]
           /\ response' = [op |-> "easeFactor",
                           quality |-> quality,
                           result |-> newEF]
    /\ UNCHANGED <<schedulerVars, events>>

\* No schedule yet: there is no ease factor to read before the first review.
InitEase ==
    /\ schedule = NULL
    /\ lastCall = NoCall
    /\ clock = 0
    /\ request = [op |-> "easeFactor", reviews |-> 0, easeFactor |-> 0]
    /\ response = Idle
    /\ events = Idle

NextEase == \E performance \in Samples : ReviewEaseFactor(performance)

SpecEase == InitEase /\ [][NextEase]_vars

----------------------------------------------------------------------------
(* SpecProduced: one user's exercises are reviewed from no schedule, one     *)
(* after the other; each schedule the engine returns is kept in the user's   *)
(* collection, and the collection is summarized and turned into              *)
(* recommendations.                                                          *)

\* One sample of each quality: 0, 2, 3, 4 and 5.
QualitySamples ==
    { p \in Samples :
        \/ ~p.correct /\ p.confidence \in {10, 50}
        \/ p.correct /\ p.confidence \in {50, 80, 95} }

\* One answer event on the exercise under review.
ReviewExercise(performance) ==
    /\ request.op = "schedules"
    /\ response = Idle
    /\ Len(request.schedules) < MaxProduced
    /\ request.reviews < MaxReviewsEach
    /\ ReviewCall(performance)
    /\ request' = [request EXCEPT !.reviews = @ + 1]
    /\ UNCHANGED <<response, events>>

\* The caller keeps the schedule of the exercise under review with the
\* user's other schedules and turns to the next exercise.
StoreSchedule ==
    /\ request.op = "schedules"
    /\ response = Idle
    /\ schedule # NULL
    /\ request' = [request EXCEPT
                      !.schedules = Append(@, [schedule EXCEPT
                                                 !.exerciseId = ToString(Len(@) + 1)]),
                      !.reviews = 0]
    /\ schedule' = NULL
    /\ lastCall' = NoCall
    /\ UNCHANGED <<clock, response, events>>

\* getStatistics over the schedules kept so far, between two exercises.
GetStatisticsOfProduced ==
    /\ schedule = NULL
    /\ response = Idle
    /\ GetStatistics

\* getRecommendations(getStatistics(schedules)).
GetRecommendationsOfStatistics ==
    /\ response.op = "getStatistics"
    /\ response' = [op |-> "getRecommendations",
                    stats |-> response.result,
                    result |-> getRecommendations(response.result)]
    /\ UNCHANGED <<request, schedulerVars, events>>

InitProduced ==
    /\ schedule = NULL
    /\ lastCall = NoCall
    /\ clock = 0
    /\ request = [op |-> "schedules", schedules |-> <<>>, reviews |-> 0]
    /\ response = Idle
    /\ events = Idle

NextProduced ==
    \/ \E performance \in QualitySamples : ReviewExercise(performance)
    \/ StoreSchedule
    \/ GetStatisticsOfProduced
    \/ GetRecommendationsOfStatistics

SpecProduced == InitProduced /\ [][NextProduced]_vars

----------------------------------------------------------------------------
(* SpecDue: one exercise is reviewed from no schedule while time passes, and *)
(* the folds are asked about it between the reviews.                         *)

\* One answer event; the returned schedule is what the folds receive next.
ReviewStored(performance) ==
    /\ request.op = "schedules"
    /\ request.reviews < MaxReviewsEach
    /\ ReviewCall(performance)
    /\ request' = [request EXCEPT
                      !.schedules = <<calculateNextReview(schedule, performance, clock)>>,
                      !.reviews = @ + 1]
    /\ UNCHANGED <<response, events>>

InitDue ==
    /\ schedule = NULL
    /\ lastCall = NoCall
    /\ clock = 0
    /\ request = [op |-> "schedules", schedules |-> <<>>, reviews |-> 0]
    /\ response = Idle
    /\ events = Idle

NextDue ==
    \/ \E performance \in QualitySamples : ReviewStored(performance)
    \/ Tick
    \/ GetDueExercises
    \/ GetStatistics

SpecDue == InitDue /\ [][NextDue]_vars

----------------------------------------------------------------------------
(* What the claims below observe of the last call *)

Reviewed == lastCall.called
HadSchedule == lastCall.called /\ lastCall.currentSchedule # NULL
FirstReview == lastCall.called /\ lastCall.currentSchedule = NULL

----------------------------------------------------------------------------
(* C1: whenever calculateNextReview is called with no previous schedule, or *)
(* with one whose interval is at least 1 day and whose ease factor is at    *)
(* least 1.3, the schedule it returns has interval >= 1 and ease factor     *)
(* >= 1.3, whatever the sample; so every schedule of a run of reviews that  *)
(* starts from no schedule has them.                                        *)
C1_IntervalAndEaseFloor ==
    Reviewed =>
        LET previous == lastCall.currentSchedule
            valid == IF previous = NULL THEN TRUE
                     ELSE previous.interval >= 1 /\ previous.easeFactor >= 130
        IN  valid => schedule.interval >= 1 /\ schedule.easeFactor >= 130

\* A quality-0 review of a schedule whose ease factor, less 0.8, is below 1.3.
C1_Witness ==
    /\ HadSchedule
    /\ lastCall.currentSchedule.interval >= 2
    /\ lastCall.currentSchedule.repetitionCount >= 2
    /\ lastCall.currentSchedule.easeFactor \in 130..209
    /\ lastCall.quality = 0
    /\ schedule.easeFactor = 130
    /\ schedule.interval = 1

(* C2: a failing review (quality < 3; in particular a wrong answer with     *)
(* confidence below 30) returns interval 1, whatever the interval, ease     *)
(* factor and repetition count of the previous schedule.                    *)
C2_FailureResetsInterval ==
    Reviewed =>
        /\ calculateQuality(lastCall.performance) < 3 => schedule.interval = 1
        /\ (~lastCall.performance.correct /\ lastCall.performance.confidence < 30)
               => schedule.interval = 1

\* A wrong answer with confidence 10 on a schedule of a 10 day interval.
C2_Witness ==
    /\ HadSchedule
    /\ lastCall.currentSchedule.interval = 10
    /\ lastCall.currentSchedule.repetitionCount = 4
    /\ ~lastCall.performance.correct
    /\ lastCall.performance.confidence = 10
    /\ schedule.interval = 1

\* The explicit schedule of a never reviewed exercise.
C3_BlankSchedule ==
    [exerciseId |-> "", userId |-> "", nextReviewDate |-> 0, interval |-> 0,
     easeFactor |-> 250, repetitionCount |-> 0, lastReviewDate |-> 0]

(* C3: a first review (no previous schedule) returns the interval, ease     *)
(* factor, repetition count and next review date that the same sample at    *)
(* the same instant gives on the explicit schedule {repetitionCount 0,      *)
(* easeFactor 2.5, interval 0}.                                             *)
C3_FirstReviewEquivalence ==
    FirstReview =>
        LET normal == calculateNextReview(C3_BlankSchedule, lastCall.performance,
                                          lastCall.now)
        IN  /\ schedule.interval = normal.interval
            /\ schedule.easeFactor = normal.easeFactor
            /\ schedule.repetitionCount = normal.repetitionCount
            /\ schedule.nextReviewDate = normal.nextReviewDate

\* The documented quality table.
C4_Quality(correct, confidence) ==
    CASE ~correct /\ confidence < 30 -> 0
      [] ~correct /\ confidence >= 30 -> 2
      [] correct /\ confidence >= 90 -> 5
      [] correct /\ confidence \in 75..89 -> 4
      [] correct /\ confidence \in 50..74 -> 3
      [] correct /\ confidence < 50 -> 2

(* C4: the quality of a sample is 0 for a wrong answer with confidence      *)
(* below 30 and 2 for any other wrong answer; for a correct answer it is 5  *)
(* from confidence 90, 4 from 75, 3 from 50 and 2 below; it is never 1, and *)
(* a correct answer with confidence below 50 is scheduled as a failure      *)
(* (interval 1, repetition count 1).                                        *)
C4_QualityMapping ==
    HadSchedule =>
        /\ lastCall.quality =
               C4_Quality(lastCall.performance.correct, lastCall.performance.confidence)
        /\ lastCall.quality \in {0, 2, 3, 4, 5}
        /\ (lastCall.performance.correct /\ lastCall.performance.confidence < 50)
               => schedule.interval = 1 /\ schedule.repetitionCount = 1

\* A correct answer with confidence 49 on a schedule of two repetitions.
C4_Witness ==
    /\ HadSchedule
    /\ lastCall.currentSchedule.repetitionCount = 2
    /\ lastCall.performance.correct
    /\ lastCall.performance.confidence = 49
    /\ lastCall.quality = 2
    /\ schedule.repetitionCount = 1

\* The documented change of the ease factor, in hundredths.
C5_Delta(quality) ==
    CASE quality = 5 -> 10
      [] quality = 4 -> 0
      [] quality = 3 -> 0 - 14
      [] quality = 2 -> 0 - 32
      [] quality = 0 -> 0 - 80

(* C5: every review of an existing schedule, passed or failed, returns the  *)
(* ease factor max(1.3, EF + d(q)), EF the previous ease factor, d(5) =     *)
(* +0.10, d(4) = 0, d(3) = -0.14, d(2) = -0.32, d(0) = -0.80; so, from an   *)
(* ease factor of at least 1.3, only quality 5 raises it and quality 4      *)
(* leaves it unchanged.                                                     *)
C5_EaseFactorUpdate ==
    HadSchedule =>
        LET EF == lastCall.currentSchedule.easeFactor
            sum == EF + C5_Delta(lastCall.quality)
        IN  /\ schedule.easeFactor = IF sum >= 130 THEN sum ELSE 130
            /\ EF >= 130 =>
                  /\ schedule.easeFactor > EF <=> lastCall.quality = 5
                  /\ lastCall.quality = 4 => schedule.easeFactor = EF

\* A quality-3 review of a schedule with ease factor 2.5 returns 2.36.
C5_Witness ==
    /\ HadSchedule
    /\ lastCall.currentSchedule.easeFactor = 250
    /\ lastCall.quality = 3
    /\ schedule.easeFactor = 236

(* C6: a passing review (quality >= 3) of an existing schedule returns      *)
(* interval 1 if the previous repetition count is 0, 3 if it is 1, and      *)
(* otherwise the integer nearest to previous interval x the returned        *)
(* (already updated) ease factor, a half rounding up.                       *)
C6_IntervalSelection ==
    (HadSchedule /\ lastCall.quality >= 3) =>
        LET previous == lastCall.currentSchedule
            twice == 2 * previous.interval * schedule.easeFactor
        IN  IF previous.repetitionCount = 0 THEN schedule.interval = 1
            ELSE IF previous.repetitionCount = 1 THEN schedule.interval = 3
            ELSE /\ 200 * schedule.interval - 100 <= twice
                 /\ twice < 200 * schedule.interval + 100

\* 3 days at ease 2.5, quality 3: round(3 x 2.36) = 7, where the previous
\* ease factor would give round(3 x 2.5) = 8.
C6_Witness ==
    /\ HadSchedule
    /\ lastCall.currentSchedule.repetitionCount = 2
    /\ lastCall.currentSchedule.interval = 3
    /\ lastCall.currentSchedule.easeFactor = 250
    /\ lastCall.quality = 3
    /\ schedule.interval = 7

(* C7: a review of an existing schedule returns the previous repetition     *)
(* count plus 1 when it passes (quality >= 3) and exactly 1 when it fails.  *)
C7_RepetitionCount ==
    HadSchedule =>
        schedule.repetitionCount =
            IF lastCall.quality >= 3
            THEN lastCall.currentSchedule.repetitionCount + 1
            ELSE 1

\* A failed review of a schedule of three repetitions.
C7_Witness ==
    /\ HadSchedule
    /\ lastCall.currentSchedule.repetitionCount = 3
    /\ lastCall.quality < 3
    /\ schedule.repetitionCount = 1

(* C8: every schedule calculateNextReview returns, first review or not, has *)
(* lastReviewDate = the instant of the review and nextReviewDate =          *)
(* lastReviewDate + interval x 86400000.                                    *)
C8_NextReviewDate ==
    Reviewed =>
        /\ schedule.lastReviewDate = lastCall.now
        /\ schedule.nextReviewDate = schedule.lastReviewDate + schedule.interval * 86400000

\* The second review, a day after the first, schedules the third 3 days on.
C8_Witness ==
    /\ HadSchedule
    /\ lastCall.now = 86400000
    /\ schedule.interval = 3
    /\ schedule.nextReviewDate = 345600000

(* C9: example scenario 1: the first review, with a correct answer of       *)
(* confidence 95, returns ease factor 2.6, interval 1, repetition count 1   *)
(* and a next review date one day after the review.                         *)
C9_Scenario1 ==
    (/\ FirstReview
     /\ lastCall.performance = [correct |-> TRUE, confidence |-> 95, timeSpent |-> 5])
    => /\ schedule.easeFactor = 260
       /\ schedule.interval = 1
       /\ schedule.repetitionCount = 1
       /\ schedule.nextReviewDate = lastCall.now + 86400000

\* The review of example scenario 2.
C10_Scenario2Case ==
    /\ HadSchedule
    /\ lastCall.currentSchedule.interval = 3
    /\ lastCall.currentSchedule.easeFactor = 250
    /\ lastCall.currentSchedule.repetitionCount = 2
    /\ lastCall.performance.correct
    /\ lastCall.performance.confidence = 80

(* C10: example scenario 2: from {interval 3, easeFactor 2.5,               *)
(* repetitionCount 2} a correct answer of confidence 80 has quality 4 and   *)
(* returns ease factor 2.56, interval 8 and repetition count 3.             *)
C10_Scenario2AsClaimed ==
    C10_Scenario2Case =>
        /\ lastCall.quality = 4
        /\ schedule.easeFactor = 256
        /\ schedule.interval = 8
        /\ schedule.repetitionCount = 3

(* C10, amended: the same review has quality 4 and returns the ease factor  *)
(* unchanged, 2.5, interval 8 (3 x 2.5 = 7.5, rounded up) and repetition    *)
(* count 3.                                                                 *)
C10_Scenario2 ==
    C10_Scenario2Case =>
        /\ lastCall.quality = 4
        /\ schedule.easeFactor = 250
        /\ schedule.interval = 8
        /\ schedule.repetitionCount = 3

C10_Witness ==
    C10_Scenario2Case /\ schedule.interval = 8 /\ schedule.lastReviewDate = lastCall.now

\* The review of example scenario 3.
C11_Scenario3Case ==
    /\ HadSchedule
    /\ lastCall.currentSchedule.interval = 10
    /\ lastCall.currentSchedule.easeFactor = 250
    /\ lastCall.currentSchedule.repetitionCount = 4
    /\ ~lastCall.performance.correct
    /\ lastCall.performance.confidence = 10

(* C11: example scenario 3: from {interval 10, easeFactor 2.5,              *)
(* repetitionCount 4} a wrong answer of confidence 10 has quality 0 and     *)
(* returns interval 1, repetition count 1 and ease factor 1.6.              *)
C11_Scenario3AsClaimed ==
    C11_Scenario3Case =>
        /\ lastCall.quality = 0
        /\ schedule.interval = 1
        /\ schedule.repetitionCount = 1
        /\ schedule.easeFactor = 160

(* C11, amended: the same review has quality 0 and returns interval 1,      *)
(* repetition count 1 and ease factor 1.7 (2.5 + 0.1 - 5 x 0.18).           *)
C11_Scenario3 ==
    C11_Scenario3Case =>
        /\ lastCall.quality = 0
        /\ schedule.interval = 1
        /\ schedule.repetitionCount = 1
        /\ schedule.easeFactor = 170

C11_Witness ==
    C11_Scenario3Case /\ schedule.interval = 1 /\ schedule.easeFactor < 250

\* A confidence clamped to the documented domain.
C12_Clamped(performance) ==
    [performance EXCEPT !.confidence = IF @ < 0 THEN 0 ELSE IF @ > 100 THEN 100 ELSE @]

(* C12: a review with a confidence below 0 or above 100 returns the         *)
(* interval, ease factor and repetition count of the same review with the   *)
(* confidence clamped to 0 or to 100.                                       *)
C12_OutOfDomainClamped ==
    (Reviewed /\ lastCall.performance.confidence \notin 0..100) =>
        LET clamped == calculateNextReview(lastCall.currentSchedule,
                                           C12_Clamped(lastCall.performance),
                                           lastCall.now)
        IN  /\ schedule.interval = clamped.interval
            /\ schedule.easeFactor = clamped.easeFactor
            /\ schedule.repetitionCount = clamped.repetitionCount

\* A correct answer with confidence 101 is a quality-5 review.
C12_Witness ==
    /\ HadSchedule
    /\ lastCall.performance.correct
    /\ lastCall.performance.confidence = 101
    /\ lastCall.currentSchedule.repetitionCount = 2
    /\ lastCall.quality = 5
    /\ schedule.easeFactor = 260
    /\ schedule.repetitionCount = 3

\* The last suggestNextDifficulty call, its score in ten-thousandths, and the
\* place of a tier in the order easy < medium < hard < expert.
Suggested == response.op = "suggestNextDifficulty"
C13_Score == response.correctRate * response.confidenceScore
C13_Rank(tier) ==
    CASE tier = "easy" -> 1
      [] tier = "medium" -> 2
      [] tier = "hard" -> 3
      [] tier = "expert" -> 4
      [] OTHER -> 0

C13_WitnessBoundary ==
    /\ Suggested
    /\ response.currentDifficulty = "hard"
    /\ response.correctRate = 80
    /\ response.confidenceScore = 100
    /\ response.result = "hard"

(* C14: from 'expert' a score above 0.8 returns 'expert', from 'easy' a      *)
(* score below 0.4 returns 'easy', and after any number of calls, each fed   *)
(* the previous suggestion, the result is one of the four tiers.             *)
C14_TierClamping ==
    /\ request # Idle => request.currentDifficulty \in Tiers
    /\ Suggested =>
        /\ response.result \in Tiers
        /\ (response.currentDifficulty = "expert" /\ C13_Score > 8000) =>
                response.result = "expert"
        /\ (response.currentDifficulty = "easy" /\ C13_Score < 4000) =>
                response.result = "easy"

\* The top tier is kept on a perfect score.
C14_Witness ==
    /\ Suggested
    /\ response.currentDifficulty = "expert"
    /\ response.correctRate = 100
    /\ response.confidenceScore = 100
    /\ response.result = "expert"

(* C15: as the guides document it, below 'expert' a correct rate of 80% or   *)
(* more yields the next harder tier; ('medium', 0.85, 92) returns 'hard'.    *)
C15_FollowsCorrectRate ==
    (Suggested /\ response.correctRate >= 80
        /\ response.currentDifficulty # "expert") =>
        C13_Rank(response.result) = C13_Rank(response.currentDifficulty) + 1

\* The last calculateConfidenceScore call, and the parts of its score as
\* the claims state them.
Scored == response.op = "calculateConfidenceScore"
C16_CorrectnessPart == IF response.isCorrect THEN 40 ELSE 10
C16_SpeedPart ==
    LET t == response.timeTaken
        avg == response.averageTimePerExercise
    IN  IF 2 * t < avg THEN 30
        ELSE IF t < avg THEN 20
        ELSE IF t < 2 * avg THEN 10
        ELSE 0
\* r is previousAccuracy x 30 rounded to the nearest integer, halves up.
C16_IsAccuracyPart(r) ==
    /\ 100 * r - 50 <= 30 * response.previousAccuracy
    /\ 30 * response.previousAccuracy < 100 * r + 50

C17_ZeroAverageGuard ==
    (Scored /\ response.averageTimePerExercise <= 0) =>
        \E r \in 0..30 :
            /\ C16_IsAccuracyPart(r)
            /\ response.result = C16_CorrectnessPart + 10 + r

\* The last getRecommendations call, the messages whose check fires on its
\* statistics, and the place of a message in the order of the checks.
Recommended == response.op = "getRecommendations"
C18_Fired ==
    LET stats == response.stats
    IN  (IF stats.due > 5 THEN {"manyDue"} ELSE {})
        \cup (IF stats.learning > 10 THEN {"heavyLearning"} ELSE {})
        \cup (IF stats.new > 0 THEN {"newExercises"} ELSE {})
        \cup (IF stats.averageEaseFactor.count > 0
                 /\ stats.averageEaseFactor.sum < 150 * stats.averageEaseFactor.count
              THEN {"contentTooHard"} ELSE {})
C18_Place(message) ==
    CASE message = "manyDue" -> 1
      [] message = "heavyLearning" -> 2
      [] message = "newExercises" -> 3
      [] message = "contentTooHard" -> 4
      [] OTHER -> 5

C18_WitnessNone ==
    /\ Recommended
    /\ response.stats.due = 5
    /\ response.stats.learning = 10
    /\ response.stats.new = 0
    /\ response.stats.averageEaseFactor = NaN
    /\ response.result = <<"doingGreat">>

\* The last getDueExercises call and the positions of its input that are due.
Filtered == response.op = "getDueExercises"
C19_DuePositions ==
    { i \in 1..Len(response.schedules) :
        response.schedules[i].nextReviewDate <= response.now }

(* C19: getDueExercises returns exactly the schedules whose nextReviewDate   *)
(* is <= now, each once and in the order of the input, and the input         *)
(* collection is as it was.                                                  *)
C19_DueExercises ==
    Filtered =>
        /\ Len(response.result) = Cardinality(C19_DuePositions)
        /\ \A i \in C19_DuePositions :
              response.result[Cardinality({ j \in C19_DuePositions : j <= i })]
                  = response.schedules[i]
        /\ request.schedules = response.schedules

\* The first and the third of three schedules are due, the third on the
\* very instant of its review.
C19_Witness ==
    /\ Filtered
    /\ Len(response.schedules) = 3
    /\ response.now = daysToMs(1)
    /\ response.schedules[1].nextReviewDate = 0
    /\ response.schedules[3].nextReviewDate = response.now
    /\ C19_DuePositions = {1, 2, 3}
    /\ response.result = response.schedules

C19_WitnessSkips ==
    /\ Filtered
    /\ response.now = TickMs
    /\ C19_DuePositions = {1, 3}
    /\ response.result = <<response.schedules[1], response.schedules[3]>>

\* The last getStatistics call, the number of its schedules that satisfy a
\* test, and the sum of the ease factors of its first n schedules.
Counted == response.op = "getStatistics"
C20_Count(Test(_)) ==
    Cardinality({ i \in 1..Len(response.schedules) : Test(response.schedules[i]) })
C20_EaseSum[n \in 0..(MaxSchedules + 1)] ==
    IF n = 0 THEN 0 ELSE C20_EaseSum[n - 1] + response.schedules[n].easeFactor

(* C20: over a non-empty collection getStatistics returns total = number of  *)
(* schedules, due = number with nextReviewDate <= now, new = number with     *)
(* repetitionCount 0, learning = number with 0 < repetitionCount < 3 not yet *)
(* due, review = number with repetitionCount >= 3 not yet due, and           *)
(* averageEaseFactor = sum of the ease factors / total; due is the length of *)
(* getDueExercises at the same instant.                                      *)
C20_Statistics ==
    (Counted /\ Len(response.schedules) > 0) =>
        LET stats == response.result
            now == response.now
            IsDue(s) == s.nextReviewDate <= now
            IsNew(s) == s.repetitionCount = 0
            IsLearning(s) == 0 < s.repetitionCount /\ s.repetitionCount < 3
                                /\ s.nextReviewDate > now
            IsMature(s) == s.repetitionCount >= 3 /\ s.nextReviewDate > now
        IN  /\ stats.total = Len(response.schedules)
            /\ stats.due = C20_Count(IsDue)
            /\ stats.new = C20_Count(IsNew)
            /\ stats.learning = C20_Count(IsLearning)
            /\ stats.review = C20_Count(IsMature)
            /\ stats.averageEaseFactor.count = stats.total
            /\ stats.averageEaseFactor.sum = C20_EaseSum[Len(response.schedules)]
            /\ stats.due = Len(getDueExercises(response.schedules, now))

\* A due learning schedule, a learning one not yet due and a mature one.
C20_Witness ==
    /\ Counted
    /\ response.now = TickMs
    /\ response.result.total = 3
    /\ response.result.due = 1
    /\ response.result.new = 0
    /\ response.result.learning = 1
    /\ response.result.review = 1
    /\ response.schedules[1].repetitionCount = 2
    /\ response.schedules[1].nextReviewDate = 0
    /\ response.result.averageEaseFactor = Mean(630, 3)

(* C21: over an empty collection getStatistics returns all counts 0 and an  *)
(* averageEaseFactor that is a defined value, not the NaN of 0 / 0.          *)
C21_EmptyCollection ==
    (Counted /\ Len(response.schedules) = 0) =>
        /\ response.result.total = 0
        /\ response.result.due = 0
        /\ response.result.new = 0
        /\ response.result.learning = 0
        /\ response.result.review = 0
        /\ response.result.averageEaseFactor.count > 0

(* C22: getStatistics counts every schedule in exactly one of due, new,      *)
(* learning and review, so due + new + learning + review = total.            *)
C22_Partition ==
    Counted =>
        response.result.due + response.result.new
            + response.result.learning + response.result.review
        = response.result.total

\* Both answer events have written; both read before either wrote; the
\* event that wrote last; and the stored schedule after the two events run
\* one after the other.
C23_Done == events.op = "answerEvents" /\ \A e \in EventIds : events.pc[e] = "done"
C23_BothReadFirst == events.log[1][1] = "read" /\ events.log[2][1] = "read"
C23_LastWriter == events.log[4][2]
C23_Serial(first, second) ==
    calculateNextReview(
        calculateNextReview(events.initial, events.performance[first], clock),
        events.performance[second], clock)

C23_RaceAlwaysDiffers ==
    (C23_Done /\ ~events.serialized /\ C23_BothReadFirst) =>
        schedule \notin {C23_Serial("a", "b"), C23_Serial("b", "a")}

\* The instants the clock of Spec takes.
C24_Instants == { k * TickMs : k \in 0..MaxClockTicks }

(* C24: the same previous schedule and sample reviewed at the same instant  *)
(* give the same schedule, and reviewed at any other instant give the same  *)
(* interval, easeFactor and repetitionCount: only nextReviewDate (instant + *)
(* interval days) and lastReviewDate (instant) follow the clock.            *)
C24_Deterministic ==
    Reviewed =>
        \A instant \in C24_Instants :
            LET other == calculateNextReview(lastCall.currentSchedule,
                                             lastCall.performance, instant)
            IN  /\ other.interval = schedule.interval
                /\ other.easeFactor = schedule.easeFactor
                /\ other.repetitionCount = schedule.repetitionCount
                /\ other.nextReviewDate - schedule.nextReviewDate
                      = instant - lastCall.now
                /\ other.lastReviewDate - schedule.lastReviewDate
                      = instant - lastCall.now
                /\ instant = lastCall.now => other = schedule

\* A schedule stored at instant 0 is reviewed a day later.
C24_Witness ==
    /\ HadSchedule
    /\ lastCall.currentSchedule.lastReviewDate = 0
    /\ lastCall.now = daysToMs(1)
    /\ schedule.interval = 3
    /\ schedule.nextReviewDate = daysToMs(4)

\* The samples of a successful review (quality >= 3).
C25_PassingSamples == { p \in Samples : calculateQuality(p) >= 3 }

(* C25: the first review of a new item schedules it 1 day ahead, and some   *)
(* three further passing samples schedule it 3, then 7, then 14 days ahead. *)
C25_DocumentedSchedule ==
    FirstReview =>
        /\ schedule.interval = 1
        /\ \E p2, p3, p4 \in C25_PassingSamples :
              LET second == calculateNextReview(schedule, p2, clock)
                  third == calculateNextReview(second, p3, clock)
                  fourth == calculateNextReview(third, p4, clock)
              IN  /\ second.interval = 3
                  /\ third.interval = 7
                  /\ fourth.interval = 14

(* C26: in every run of reviews from no previous schedule a passing review *)
(* (quality >= 3) returns an interval strictly greater than the previous    *)
(* one, and an interval smaller than the previous one is returned only by a *)
(* failing review.                                                          *)
C26_MonotonicGrowth ==
    HadSchedule =>
        /\ lastCall.quality >= 3 =>
              schedule.interval > lastCall.currentSchedule.interval
        /\ schedule.interval < lastCall.currentSchedule.interval =>
              lastCall.quality < 3

\* The slowest growth: ease factor at its floor, 3 days grow to 4.
C26_Witness ==
    /\ HadSchedule
    /\ lastCall.quality = 3
    /\ lastCall.currentSchedule.interval = 3
    /\ lastCall.currentSchedule.easeFactor = MINIMUM_EASE_FACTOR
    /\ schedule.easeFactor = MINIMUM_EASE_FACTOR
    /\ schedule.interval = 4

\* A failing review takes a grown interval back to 1 day.
C26_WitnessDecrease ==
    /\ HadSchedule
    /\ lastCall.quality < 3
    /\ lastCall.currentSchedule.interval = 8
    /\ schedule.interval = 1

(* C27: after any sequence of reviews from no schedule, an arbitrarily long *)
(* run of quality-5 reviews included, easeFactor is within                  *)
(* [MINIMUM_EASE_FACTOR, MAXIMUM_EASE_FACTOR] = [1.3, 5.0].                 *)
C27_EaseFactorBounded ==
    (request.op = "easeFactor" /\ request.reviews > 0) =>
        /\ request.easeFactor >= MINIMUM_EASE_FACTOR
        /\ request.easeFactor <= MAXIMUM_EASE_FACTOR

\* The lower half holds: the ease factor never falls below its floor.
C27_EaseFactorFloor ==
    (request.op = "easeFactor" /\ request.reviews > 0) =>
        request.easeFactor >= MINIMUM_EASE_FACTOR

\* The schedules the engine has produced for the user so far.
C28_Produced ==
    IF request.op = "schedules"
    THEN { request.schedules[i] : i \in 1..Len(request.schedules) }
            \cup (IF schedule = NULL THEN {} ELSE {schedule})
    ELSE {}

(* C28: every schedule calculateNextReview produces from no schedule, after *)
(* passing and failing reviews alike, has repetitionCount >= 1; so          *)
(* getStatistics over such schedules reports new = 0 and getRecommendations *)
(* on those statistics never gives the 'new exercises' message.             *)
C28_NeverNew ==
    /\ \A s \in C28_Produced : s.repetitionCount >= 1
    /\ Counted => response.result.new = 0
    /\ Recommended =>
          /\ response.stats.new = 0
          /\ \A i \in 1..Len(response.result) : response.result[i] # "newExercises"

\* Two exercises, one of them failed on its last review, are summarized.
C28_Witness ==
    /\ Recommended
    /\ response.stats.total = 2
    /\ response.stats.new = 0
    /\ response.stats.learning = 2
    /\ request.schedules[1].repetitionCount = 1
    /\ request.schedules[1].easeFactor < INITIAL_EASE_FACTOR
    /\ request.schedules[2].repetitionCount = 2
    /\ response.result = <<"doingGreat">>

\* The last fold was asked about the schedule as the last review left it,
\* and whether it took the schedule for due.
C29_AskedSinceReview ==
    /\ Reviewed
    /\ Filtered \/ Counted
    /\ response.schedules = <<schedule>>
    /\ response.now >= lastCall.now
C29_Included ==
    IF Filtered THEN response.result = <<schedule>> ELSE response.result.due = 1
C29_Excluded ==
    IF Filtered THEN response.result = <<>> ELSE response.result.due = 0

(* C29: after a review at instant t, getDueExercises and the due count of   *)
(* getStatistics leave the schedule out at every instant before             *)
(* t + 86400000 ms and take it in at every instant from its nextReviewDate  *)
(* on, until it is reviewed again.                                          *)
C29_NotDueWithinADay ==
    C29_AskedSinceReview =>
        /\ response.now < lastCall.now + 86400000 => C29_Excluded
        /\ response.now >= schedule.nextReviewDate => C29_Included

\* Reviewed at instant 0 and failed, asked about half a day later: not due.
C29_Witness ==
    /\ C29_AskedSinceReview
    /\ Filtered
    /\ lastCall.now = 0
    /\ lastCall.quality = 0
    /\ response.now = TickMs
    /\ response.result = <<>>

\* Asked about on the instant of its next review, a day later: due.
C29_WitnessDue ==
    /\ C29_AskedSinceReview
    /\ Counted
    /\ lastCall.now = 0
    /\ response.now = schedule.nextReviewDate
    /\ response.result.due = 1

====
